---------------------------- MODULE Spec2Model ----------------------------
(***************************************************************************)
(* The Reveal component of src/pages/nishanth-portofolio.tsx (lines 61-102)*)
(* as a state machine: per instance the `visible` flag, the                *)
(* IntersectionObserver(s) its effect created, the setTimeout timers its   *)
(* observer callback scheduled, and its place in the React lifecycle.      *)
(*                                                                         *)
(* Time is counted in milliseconds, one Tick per millisecond; a timer runs *)
(* its callback in the instant its delay has elapsed.  Intersection ratios *)
(* are percentages of the element's area.                                  *)
(***************************************************************************)
EXTENDS Naturals, Integers, Sequences, FiniteSets

VARIABLES
    phase,      \* per instance: "rendered" (useState done, effect not yet run),
                \* "mounted", "detached" (unmounted), "crashed" (the effect threw),
                \* "absent" (not part of the page)
    visible,    \* per instance: the `visible` state (line 63)
    delay,      \* per instance: the current `delay` prop (line 61)
    obs,        \* per instance: the IntersectionObservers created so far, oldest first
    cleanup,    \* per instance: whether the last effect run returned a cleanup (line 87)
    timers,     \* per instance: the pending setTimeout timers, each its remaining ms
    elapsed,    \* per instance: ms since the first qualifying entry was delivered, -1
                \* before; a stopwatch that stops one ms past the instance's delay
    together,   \* whether the siblings' first qualifying entries came in the same ms
    scheduled,  \* per instance: number of setTimeout calls made so far
    fired,      \* per instance: number of timer callbacks run so far
    mountKind,  \* per instance: how the effect ended at mount ("none" before mount)
    shownAt,    \* per instance: value of `elapsed` when `visible` was set, -2 if never
    changes     \* number of `delay` prop changes so far

vars == <<phase, visible, delay, obs, cleanup, timers, elapsed, together, scheduled,
          fired, mountKind, shownAt, changes>>

---------------------------------------------------------------------------
(* Bounds and program constants *)

\* The sibling instances of one section (Education: lines 403 and 410).
Inst == {1, 2}

\* threshold: 0.2 (line 84), in percent of the element's area.
Threshold == 20

\* delay of a Reveal without the prop (line 61) and of the second Education card (line 410).
DefaultDelay == 0
EducationDelay == 80
\* delay of the second skill card, i * 50 with i = 1 (line 259).
SkillDelay == 50

Delays == {DefaultDelay, SkillDelay, EducationDelay}

\* Intersection ratios the browser may report: outside, just below the
\* threshold, exactly at it, above it.
Ratios == {0, 19, 20, 25}

\* Most entries the browser queues for one observer before it runs the callback.
MaxQueue == 3
\* Most changes of a `delay` prop.
MaxDelayChanges == 1

\* The environment an effect run reads: window.matchMedia present or not, the
\* media query's `matches`, IntersectionObserver present or not.
Envs == [hasMatchMedia : BOOLEAN, matches : BOOLEAN, hasIO : BOOLEAN]

---------------------------------------------------------------------------
(* Pure helpers *)

\* useState(false), line 63.
InitialVisible == FALSE

\* window.matchMedia?.("(prefers-reduced-motion: reduce)").matches, line 67:
\* the optional chain yields undefined (falsy) when matchMedia is absent.
PrefersReduced(env) == env.hasMatchMedia /\ env.matches

\* How one run of the effect body ends (lines 65-87): the reduced-motion
\* early return, an exception from `new IntersectionObserver` (there is no
\* try/catch around it), or an observer registered on the element.
EffectOutcome(env) ==
    IF PrefersReduced(env) THEN "reduced"
    ELSE IF ~env.hasIO THEN "throws"
    ELSE "observing"

\* The browser's threshold index of a ratio for thresholds [0.2].
ThresholdIndex(r) == IF r >= Threshold THEN 1 ELSE 0

\* A variant that takes any overlap with the viewport for an intersection.
IsIntersectingAnyOverlap(e) == e > 0

\* e.isIntersecting (line 77) as browsers compute it for an observer whose
\* only threshold is 0.2: the entry's ratio has reached the threshold.
IsIntersecting(e) == ThresholdIndex(e) > 0

\* A fresh observer after obs.observe(el) (lines 74-86): `d` is the delay its
\* callback closed over, `prev` the previous threshold index (-1: none yet).
NewObserver(d) == [active |-> TRUE, prev |-> -1, queue |-> <<>>, d |-> d]

\* obs.disconnect() (lines 80, 87): stops observing and drops queued entries.
Disconnect(o) == [o EXCEPT !.active = FALSE, !.queue = <<>>]

\* A variant that forgets the delay argument of setTimeout.
TimersWithoutDelay(entries, d) ==
    [j \in 1..Len(SelectSeq(entries, IsIntersecting)) |-> 0]

\* The timers one callback invocation schedules (lines 76-82): forEach makes
\* one setTimeout(..., delay) per intersecting entry.
TimersScheduledBy(entries, d) ==
    [j \in 1..Len(SelectSeq(entries, IsIntersecting)) |-> d]

\* The observer after its callback ran on `entries` (lines 76-82): it is
\* disconnected iff some entry was intersecting; the queue was taken anyway.
AfterCallback(o, entries) ==
    IF \E j \in 1..Len(entries) : IsIntersecting(entries[j])
    THEN Disconnect(o)
    ELSE [o EXCEPT !.queue = <<>>]

\* Variants of the timer callback: one toggles the flag, one leaves it alone.
TimerCallbackToggle(v) == ~v
TimerCallbackNoop(v) == v

\* The value the timer callback passes to setVisible (line 79).
TimerCallback(v) == TRUE

\* A variant whose effect returns no cleanup.
RunNoCleanup(os, has) == os

\* The cleanup `() => obs.disconnect()` (line 87) disconnects the observer
\* the same effect run created, which is the newest one.
RunCleanup(os, has) ==
    IF has /\ Len(os) > 0
    THEN [os EXCEPT ![Len(os)] = Disconnect(@)]
    ELSE os

\* A variant whose reduced-motion branch lacks the `return`.
ObserversWithoutReturn(os, env, d) ==
    IF env.hasIO THEN Append(os, NewObserver(d)) ELSE os

\* The observers after the effect body ran (lines 72-86).
ObserversAfterEffect(os, env, d) ==
    IF EffectOutcome(env) = "observing" THEN Append(os, NewObserver(d)) ELSE os

\* `visible` after the effect body ran (lines 68-71).
VisibleAfterEffect(v, env) ==
    IF EffectOutcome(env) = "reduced" THEN TRUE ELSE v

Remove(s, j) == [k \in 1..(Len(s) - 1) |-> IF k < j THEN s[k] ELSE s[k + 1]]

ActiveObservers(i) == {k \in 1..Len(obs[i]) : obs[i][k].active}

\* Where the stopwatch of instance i stops.
LastElapsed(i) == delay[i] + 1

---------------------------------------------------------------------------
(* Initial state: every instance rendered once, effects not yet run.       *)

TypeOK ==
    /\ phase \in [Inst -> {"rendered", "mounted", "detached", "crashed", "absent"}]
    /\ visible \in [Inst -> BOOLEAN]
    /\ delay \in [Inst -> Delays]
    /\ \A i \in Inst : \E d \in Delays : elapsed[i] \in -1..(d + 1)
    /\ together \in BOOLEAN
    /\ changes \in 0..MaxDelayChanges

Init ==
    /\ phase = [i \in Inst |-> "rendered"]
    /\ visible = [i \in Inst |-> InitialVisible]
    /\ \E d \in {SkillDelay, EducationDelay} :
          delay = [i \in Inst |-> IF i = 1 THEN DefaultDelay ELSE d]
    /\ obs = [i \in Inst |-> <<>>]
    /\ cleanup = [i \in Inst |-> FALSE]
    /\ timers = [i \in Inst |-> <<>>]
    /\ elapsed = [i \in Inst |-> -1]
    /\ together = FALSE
    /\ scheduled = [i \in Inst |-> 0]
    /\ fired = [i \in Inst |-> 0]
    /\ mountKind = [i \in Inst |-> "none"]
    /\ shownAt = [i \in Inst |-> -2]
    /\ changes = 0

---------------------------------------------------------------------------
(* Actions *)

\* The effect runs after the first render (lines 65-88).
Mount(i, env) ==
    /\ phase[i] = "rendered"
    /\ phase' = [phase EXCEPT ![i] =
                    IF EffectOutcome(env) = "throws" THEN "crashed" ELSE "mounted"]
    /\ visible' = [visible EXCEPT ![i] = VisibleAfterEffect(@, env)]
    /\ obs' = [obs EXCEPT ![i] = ObserversAfterEffect(@, env, delay[i])]
    /\ cleanup' = [cleanup EXCEPT ![i] = (EffectOutcome(env) = "observing")]
    /\ mountKind' = [mountKind EXCEPT ![i] = EffectOutcome(env)]
    /\ shownAt' = [shownAt EXCEPT ![i] =
                    IF VisibleAfterEffect(visible[i], env) /\ ~visible[i]
                    THEN elapsed[i] ELSE @]
    /\ UNCHANGED <<delay, timers, elapsed, together, scheduled, fired, changes>>

\* The browser samples the element's intersection in a frame and queues an
\* entry for observer k when the threshold index changed.
Sample(i, k, r) ==
    /\ k \in ActiveObservers(i)
    /\ ThresholdIndex(r) # obs[i][k].prev
    /\ Len(obs[i][k].queue) < MaxQueue
    /\ obs' = [obs EXCEPT ![i][k] =
                  [@ EXCEPT !.prev = ThresholdIndex(r), !.queue = Append(@, r)]]
    /\ UNCHANGED <<phase, visible, delay, cleanup, timers, elapsed, together,
                   scheduled, fired, mountKind, shownAt, changes>>

\* The browser runs observer k's callback on its queued entries (lines 75-83).
Deliver(i, k) ==
    /\ k \in ActiveObservers(i)
    /\ obs[i][k].queue # <<>>
    /\ LET entries == obs[i][k].queue
           new == TimersScheduledBy(entries, obs[i][k].d)
       IN  /\ timers' = [timers EXCEPT ![i] = @ \o new]
           /\ scheduled' = [scheduled EXCEPT ![i] = @ + Len(new)]
           /\ obs' = [obs EXCEPT ![i][k] = AfterCallback(@, entries)]
           /\ LET starts == /\ elapsed[i] = -1
                             /\ \E j \in 1..Len(entries) : entries[j] >= Threshold
              IN  /\ elapsed' = [elapsed EXCEPT ![i] = IF starts THEN 0 ELSE @]
                  /\ together' = IF starts
                                 THEN \E j \in Inst \ {i} : elapsed[j] = 0
                                 ELSE together
    /\ UNCHANGED <<phase, visible, delay, cleanup, fired, mountKind, shownAt, changes>>

\* A timer whose delay has elapsed runs `() => setVisible(true)` (line 79).
\* React drops a state update of a component that is no longer mounted.
TimerFire(i) ==
    /\ \E j \in 1..Len(timers[i]) :
          /\ timers[i][j] = 0
          /\ \A m \in 1..(j - 1) : timers[i][m] # 0
          /\ timers' = [timers EXCEPT ![i] = Remove(@, j)]
    /\ fired' = [fired EXCEPT ![i] = @ + 1]
    /\ visible' = [visible EXCEPT ![i] =
                      IF phase[i] = "mounted" THEN TimerCallback(@) ELSE @]
    /\ shownAt' = [shownAt EXCEPT ![i] =
                      IF phase[i] = "mounted" /\ ~visible[i] /\ TimerCallback(visible[i])
                      THEN elapsed[i] ELSE @]
    /\ UNCHANGED <<phase, delay, obs, cleanup, elapsed, together, scheduled,
                   mountKind, changes>>

\* One millisecond passes.  No timer is overdue: a due timer runs first.
Tick ==
    /\ \A i \in Inst : \A j \in 1..Len(timers[i]) : timers[i][j] > 0
    /\ \/ \E i \in Inst : timers[i] # <<>>
       \/ \E i \in Inst : elapsed[i] >= 0 /\ elapsed[i] < LastElapsed(i)
    /\ timers' = [i \in Inst |-> [j \in 1..Len(timers[i]) |-> timers[i][j] - 1]]
    /\ elapsed' = [i \in Inst |->
                      IF elapsed[i] >= 0 /\ elapsed[i] < LastElapsed(i)
                      THEN elapsed[i] + 1 ELSE elapsed[i]]
    /\ UNCHANGED <<phase, visible, delay, obs, cleanup, together, scheduled, fired,
                   mountKind, shownAt, changes>>

\* A variant in which the siblings share one observer, so that the cleanup
\* of one instance disconnects the observation of all of them.
DetachShared(i) ==
    /\ phase[i] = "mounted"
    /\ phase' = [phase EXCEPT ![i] = "detached"]
    /\ obs' = [j \in Inst |-> RunCleanup(obs[j], cleanup[i])]
    /\ cleanup' = [cleanup EXCEPT ![i] = FALSE]
    /\ UNCHANGED <<visible, delay, timers, elapsed, together, scheduled, fired,
                   mountKind, shownAt, changes>>

\* A variant whose cleanup also clears the pending timers (clearTimeout).
DetachCancelling(i) ==
    /\ phase[i] = "mounted"
    /\ phase' = [phase EXCEPT ![i] = "detached"]
    /\ obs' = [obs EXCEPT ![i] = RunCleanup(@, cleanup[i])]
    /\ cleanup' = [cleanup EXCEPT ![i] = FALSE]
    /\ timers' = [timers EXCEPT ![i] = <<>>]
    /\ UNCHANGED <<visible, delay, elapsed, together, scheduled, fired,
                   mountKind, shownAt, changes>>

\* The instance is unmounted: React runs the effect's cleanup (line 87).
Detach(i) ==
    /\ phase[i] = "mounted"
    /\ phase' = [phase EXCEPT ![i] = "detached"]
    /\ obs' = [obs EXCEPT ![i] = RunCleanup(@, cleanup[i])]
    /\ cleanup' = [cleanup EXCEPT ![i] = FALSE]
    /\ UNCHANGED <<visible, delay, timers, elapsed, together, scheduled, fired,
                   mountKind, shownAt, changes>>

\* The parent re-renders the instance with another `delay`: the dependency
\* list [delay] (line 88) makes React run the previous cleanup, then the
\* effect body again with the new delay and the environment of that moment.
SetDelay(i, d, env) ==
    /\ phase[i] = "mounted"
    /\ d # delay[i]
    /\ changes < MaxDelayChanges
    /\ changes' = changes + 1
    /\ delay' = [delay EXCEPT ![i] = d]
    /\ phase' = [phase EXCEPT ![i] =
                    IF EffectOutcome(env) = "throws" THEN "crashed" ELSE "mounted"]
    /\ visible' = [visible EXCEPT ![i] = VisibleAfterEffect(@, env)]
    /\ obs' = [obs EXCEPT ![i] =
                  ObserversAfterEffect(RunCleanup(@, cleanup[i]), env, d)]
    /\ cleanup' = [cleanup EXCEPT ![i] = (EffectOutcome(env) = "observing")]
    /\ shownAt' = [shownAt EXCEPT ![i] =
                    IF VisibleAfterEffect(visible[i], env) /\ ~visible[i]
                    THEN elapsed[i] ELSE @]
    /\ UNCHANGED <<timers, elapsed, together, scheduled, fired, mountKind>>

Next ==
    \/ \E i \in Inst, env \in Envs : Mount(i, env)
    \/ \E i \in Inst, k \in 1..2, r \in Ratios : Sample(i, k, r)
    \/ \E i \in Inst, k \in 1..2 : Deliver(i, k)
    \/ \E i \in Inst : TimerFire(i)
    \/ Tick
    \/ \E i \in Inst : Detach(i)

Spec == Init /\ [][Next]_vars

\* The same component when its parent may also change the `delay` prop.
NextProps ==
    \/ Next
    \/ \E i \in Inst, d \in Delays, env \in Envs : SetDelay(i, d, env)

\* One instance on the page, rendered with any of the delays.
InitProps ==
    /\ phase = [i \in Inst |-> IF i = 1 THEN "rendered" ELSE "absent"]
    /\ visible = [i \in Inst |-> InitialVisible]
    /\ \E d \in Delays : delay = [i \in Inst |-> d]
    /\ obs = [i \in Inst |-> <<>>]
    /\ cleanup = [i \in Inst |-> FALSE]
    /\ timers = [i \in Inst |-> <<>>]
    /\ elapsed = [i \in Inst |-> -1]
    /\ together = FALSE
    /\ scheduled = [i \in Inst |-> 0]
    /\ fired = [i \in Inst |-> 0]
    /\ mountKind = [i \in Inst |-> "none"]
    /\ shownAt = [i \in Inst |-> -2]
    /\ changes = 0

SpecProps == InitProps /\ [][NextProps]_vars

\* Timers run: a millisecond passes unless a timer is due, and a due timer
\* runs its callback (the browser's event loop serves expired timers).
FairSpec == Spec /\ WF_vars(Tick) /\ \A i \in Inst : WF_vars(TimerFire(i))

---------------------------------------------------------------------------
(* Claims *)

\* C1: `visible` is a one-way latch: no step of any instance takes it from
\* true back to false, so it goes from false to true at most once.
C1_VisibleLatch == [][\A i \in Inst : visible[i] => visible'[i]]_vars

\* C1 witness: an instance is visible and a second timer callback has run on it.
C1_Witness == \E i \in Inst : visible[i] /\ fired[i] >= 2

\* C2 (as claimed): an instance never makes a second setTimeout call.
C2_AtMostOneTimer == \A i \in Inst : scheduled[i] <= 1

\* C3 (as claimed, in its finite form): once a qualifying entry has been
\* delivered and the timers it scheduled have expired, `visible` is true.
C3_VisibleAfterExpiry ==
    \A i \in Inst : (elapsed[i] >= 0 /\ timers[i] = <<>>) => visible[i]

\* C3 (amended): once a qualifying entry has been delivered to an instance,
\* eventually `visible` is true or the instance has been detached before its
\* timer expired; and `visible`, once true, stays true.
C3_EventuallyVisible ==
    /\ \A i \in Inst :
          (elapsed[i] >= 0) ~> [](visible[i] \/ phase[i] = "detached")
    /\ [][\A i \in Inst : visible[i] => visible'[i]]_vars

\* C3 witness: an attached instance that became visible by its timer, at a
\* later time, with the observer no longer reporting anything.
C3_Witness ==
    \E i \in Inst : /\ phase[i] = "mounted" /\ visible[i] /\ shownAt[i] >= 0
                     /\ elapsed[i] > shownAt[i] /\ ActiveObservers(i) = {}

\* C4: an instance mounted under reduced motion is visible from the mount
\* on, has never registered an observer and has never scheduled a timer.
C4_ReducedMotion ==
    \A i \in Inst : mountKind[i] = "reduced" =>
        visible[i] /\ obs[i] = <<>> /\ scheduled[i] = 0 /\ timers[i] = <<>>

\* C4 witness: a reduced-motion instance that has since been detached while
\* its sibling went through a qualifying intersection.
C4_Witness ==
    \E i, j \in Inst : /\ mountKind[i] = "reduced" /\ phase[i] = "detached"
                        /\ elapsed[j] > 0

\* C5: an instance detached before any qualifying entry was delivered has
\* no active observer and no timer, and its `visible` is what the mount left:
\* false unless the reduced-motion path had set it.
C5_DetachBeforeIntersection ==
    \A i \in Inst : (phase[i] = "detached" /\ elapsed[i] = -1) =>
        /\ ActiveObservers(i) = {}
        /\ timers[i] = <<>> /\ scheduled[i] = 0
        /\ visible[i] <=> (mountKind[i] = "reduced")

\* C5 witness: an observing instance that had a below-threshold entry
\* sampled, was then detached, and time has passed for its sibling.
C5_Witness ==
    \E i, j \in Inst : /\ phase[i] = "detached" /\ elapsed[i] = -1
                        /\ mountKind[i] = "observing" /\ obs[i][1].prev = 0
                        /\ elapsed[j] > 0

\* C6 (as claimed): no effect run lets an exception escape, and an instance
\* whose mount found the intersection facility unavailable is visible.
C6_FailOpen ==
    \A i \in Inst : phase[i] # "crashed" /\ (mountKind[i] = "throws" => visible[i])

\* C7: an instance mounted without reduced motion is hidden after mount, and
\* it has scheduled a timer or become visible only if an entry at or above
\* the 20% threshold has been delivered to it.
C7_OnlyAfterThreshold ==
    \A i \in Inst : (mountKind[i] # "reduced" /\ elapsed[i] = -1) =>
        ~visible[i] /\ scheduled[i] = 0 /\ timers[i] = <<>>

\* C7 witness: a mounted instance whose callback has run on a
\* below-threshold entry and which is still hidden and still observing.
C7_Witness ==
    \E i \in Inst : /\ mountKind[i] = "observing" /\ ActiveObservers(i) = {1}
                     /\ obs[i][1].prev = 0 /\ obs[i][1].queue = <<>>
                     /\ ~visible[i] /\ scheduled[i] = 0

\* C8: with the qualifying entry delivered at time 0 and delay d, `visible`
\* is false at every time before d, it was set at time d exactly, and an
\* attached instance is visible at every time after d.
C8_VisibleAtDelay ==
    \A i \in Inst : mountKind[i] = "observing" =>
        /\ (elapsed[i] >= 0 /\ elapsed[i] < delay[i]) => ~visible[i]
        /\ visible[i] => shownAt[i] = delay[i]
        /\ (phase[i] = "mounted" /\ elapsed[i] > delay[i]) => visible[i]
        /\ (phase[i] = "mounted" /\ elapsed[i] = delay[i] /\ ~visible[i]) =>
              (timers[i] # <<>> /\ \A j \in 1..Len(timers[i]) : timers[i][j] = 0)

\* C8 witness: the instance with delay 80 became visible at time 80.
C8_Witness ==
    \E i \in Inst : /\ delay[i] = EducationDelay /\ phase[i] = "mounted"
                     /\ visible[i] /\ shownAt[i] = EducationDelay
                     /\ elapsed[i] = EducationDelay

\* What belongs to one instance, and whether a step is a step of that
\* instance (a callback, a timer expiry, a mount or a detach).
Local(i) == <<phase[i], visible[i], obs[i], cleanup[i], timers[i], elapsed[i]>>
Own(i) == <<phase[i], visible[i], obs[i], Len(timers[i])>>

\* C9: a step of one instance leaves every other instance's flag, observers
\* and timers as they are; and siblings with delays 0 and 50 whose qualifying
\* entries were delivered in the same instant became visible at 0 and at 50.
C9_SiblingsIndependent ==
    /\ [][\A i, j \in Inst : (i # j /\ Own(i)' # Own(i)) => Local(j)' = Local(j)]_vars
    /\ [](\A i, j \in Inst :
            ( /\ delay[i] = DefaultDelay /\ delay[j] = SkillDelay
              /\ together
              /\ phase[i] = "mounted" /\ phase[j] = "mounted" )
            => /\ visible[i] => shownAt[i] = DefaultDelay
               /\ visible[j] => shownAt[j] = SkillDelay
               /\ (elapsed[i] > DefaultDelay) => visible[i]
               /\ (elapsed[j] > DefaultDelay) => visible[i]
               /\ (elapsed[j] > SkillDelay) => visible[j]
               /\ (elapsed[j] < SkillDelay) => ~visible[j])

\* C9 witness: both siblings intersected in the same instant; the first
\* became visible at 0, the second at 50.
C9_Witness ==
    /\ delay[1] = DefaultDelay /\ delay[2] = SkillDelay
    /\ together /\ elapsed[2] = SkillDelay
    /\ phase[1] = "mounted" /\ phase[2] = "mounted"
    /\ visible[1] /\ visible[2]
    /\ shownAt[1] = DefaultDelay /\ shownAt[2] = SkillDelay

\* C10 (as claimed): an observer is active only on an attached instance that
\* has not yet received a qualifying entry, and at most one at a time.
C10_ObservationOnlyWhilePending ==
    \A i \in Inst :
        /\ ActiveObservers(i) # {} => (phase[i] = "mounted" /\ elapsed[i] = -1)
        /\ Cardinality(ActiveObservers(i)) <= 1

\* C11: a detach leaves the pending timers of the instance as they are and
\* leaves it with no active observer; on a detached instance no step
\* registers an observer or schedules a timer, and every timer pending at the
\* detach runs its callback once (none is cancelled, none runs twice) until
\* none is left.
C11_TimerSurvivesDetach ==
    /\ [][\A i \in Inst : (phase[i] = "mounted" /\ phase'[i] = "detached") =>
              (timers'[i] = timers[i] /\ ActiveObservers(i)' = {})]_vars
    /\ [][\A i \in Inst : phase[i] = "detached" =>
              /\ obs'[i] = obs[i] /\ scheduled'[i] = scheduled[i]
              /\ fired'[i] + Len(timers'[i]) = fired[i] + Len(timers[i])
              /\ fired'[i] \in {fired[i], fired[i] + 1}]_vars
    /\ \A i \in Inst :
          (phase[i] = "detached" /\ timers[i] # <<>>)
              ~> (timers[i] = <<>> /\ fired[i] = scheduled[i])

\* C11 witness: an instance detached with its timer pending; the timer has
\* since run on the unmounted instance, and nothing is observed or pending.
C11_Witness ==
    \E i \in Inst : /\ phase[i] = "detached" /\ mountKind[i] = "observing"
                     /\ fired[i] >= 1 /\ ~visible[i] /\ timers[i] = <<>>
                     /\ fired[i] = scheduled[i] /\ ActiveObservers(i) = {}

=============================================================================
